---- MODULE Spec2Model ----
(***************************************************************************)
(* Model of core/analysis_engine.py: the audio extraction context manager  *)
(* (extract_audio_from_url), the Gemini analysis stage with its retry loop *)
(* (analyze_audio_file) and the orchestrator (process_video_insights).     *)
(* One invocation is followed from the call to its return or raise; the    *)
(* external calls (binary check, download, upload, generation, deletion,   *)
(* directory removal) answer nondeterministically.                         *)
(***************************************************************************)
EXTENDS Integers, Sequences, FiniteSets, TLC

VARIABLES entry, max_retries, pc, exc, analysis_result,
          temp_dir, audio_file, uploaded_file, remote_file,
          attempt, calls, sleeps, last_response, transient_failures,
          uploads, deletes, delete_failed, rmtree_failed,
          extract_failure, analysis_started, stage_exit,
          binaries, downloads, download_error, primary

vars == <<entry, max_retries, pc, exc, analysis_result,
          temp_dir, audio_file, uploaded_file, remote_file,
          attempt, calls, sleeps, last_response, transient_failures,
          uploads, deletes, delete_failed, rmtree_failed,
          extract_failure, analysis_started, stage_exit,
          binaries, downloads, download_error, primary>>

-----------------------------------------------------------------------------
(* Bounds and program constants *)

\* largest max_retries argument tried when analyze_audio_file is called directly
MaxRetriesArg == 4

\* default of the max_retries parameter, used by process_video_insights
DefaultMaxRetries == 8

\* Field(..., ge=0, le=100)
ClarityMin == 0
ClarityMax == 100

\* "no value" for the numeric fields of an exception that carries none
NA == -1

\* status codes the retry loop treats as transient
TransientStatuses == {500, 503, 429}

\* status codes the service is made to answer with (transient and permanent)
StatusCodes == TransientStatuses \cup {400, 401}

\* bodies of an error response: e.response.text
ErrorBodies == {"json_with_message", "json_without_message", "not_json"}

-----------------------------------------------------------------------------
(* Exceptions: the class, the message as the list of its nested fragments  *)
(* (f"...: {e}" embeds the text of e), and the attempt count and status     *)
(* the text reports.                                                        *)

Exc(type, msg, attempts, status) ==
    [type |-> type, msg |-> msg, attempts |-> attempts, status |-> status]

NoExc == Exc("none", <<>>, NA, NA)

\* direct base class of each exception class that can occur
BaseOf(type) ==
    CASE type = "RuntimeError"    -> "Exception"
      [] type = "ValueError"      -> "Exception"
      [] type = "JSONDecodeError" -> "ValueError"
      [] type = "ValidationError" -> "ValueError"
      [] type = "OSError"         -> "Exception"
      [] type = "ConnectionError" -> "OSError"
      [] type = "DownloadError"   -> "Exception"
      [] type = "APIError"        -> "Exception"
      [] type = "TransportError"  -> "Exception"
      [] OTHER                    -> "object"

RECURSIVE IsInstance(_, _)
IsInstance(type, class) ==
    IF type = class THEN TRUE
    ELSE IF type \in {"Exception", "object", "none"} THEN FALSE
    ELSE IsInstance(BaseOf(type), class)

-----------------------------------------------------------------------------
(* Text of a DownloadError.  Python's `in` is a substring test on the       *)
(* lower-cased text, so a text is modelled by its characters.               *)

DownloadTexts == {"Sign in", "confirm you're not a bot", "Design intent", "HTTP 404"}

Chars(text) ==
    CASE text = "Sign in" -> <<"S","i","g","n"," ","i","n">>
      [] text = "confirm you're not a bot" ->
           <<"c","o","n","f","i","r","m"," ","y","o","u","'","r","e"," ",
             "n","o","t"," ","a"," ","b","o","t">>
      [] text = "Design intent" ->
           <<"D","e","s","i","g","n"," ","i","n","t","e","n","t">>
      [] text = "HTTP 404" -> <<"H","T","T","P"," ","4","0","4">>
      [] text = "sign in" -> <<"s","i","g","n"," ","i","n">>
      [] OTHER -> <<>>

\* str.lower() on one character
LowerChar(c) ==
    CASE c = "S" -> "s" [] c = "D" -> "d" [] c = "H" -> "h"
      [] c = "T" -> "t" [] c = "P" -> "p" [] OTHER -> c

Lower(chars) == [i \in 1..Len(chars) |-> LowerChar(chars[i])]

\* needle in hay
IsSubstring(needle, hay) ==
    \E i \in 0..(Len(hay) - Len(needle)) :
        \A j \in 1..Len(needle) : hay[i + j] = needle[j]

\* faulty variant of RequiresLogin: the text is not lower-cased first
RequiresLoginCaseSensitive(text) ==
    LET msg == Chars(text)
    IN  \/ IsSubstring(Chars("sign in"), msg)
        \/ IsSubstring(Chars("confirm you're not a bot"), msg)

\* "sign in" in msg or "confirm you're not a bot" in msg
RequiresLogin(text) ==
    LET msg == Lower(Chars(text))
    IN  \/ IsSubstring(Chars("sign in"), msg)
        \/ IsSubstring(Chars("confirm you're not a bot"), msg)

-----------------------------------------------------------------------------
(* The service's answer to a generation call and its validation against    *)
(* CommunicationAnalysis.                                                   *)

\* clarity_score as it appears in the JSON text: absent, null, a JSON
\* integer, or a JSON string of digits (pydantic's lax mode converts it)
ScoreValues == {-1, 0, 55, 100, 101}
JsonScores ==
    {[t |-> "missing", v |-> 0], [t |-> "null", v |-> 0]}
    \cup [t : {"int"}, v : ScoreValues]
    \cup [t : {"str"}, v : {55, 101}]

JsonTexts == {"missing", "text"}

Payloads ==
    [clarity_score : JsonScores, communication_focus : JsonTexts, transcript : JsonTexts]

\* what the last generation call answered: the status, the kind of body and,
\* for a JSON object, its content
NoData ==
    [clarity_score |-> [t |-> "missing", v |-> 0],
     communication_focus |-> "missing", transcript |-> "missing"]

Response(status, body, data) == [status |-> status, body |-> body, data |-> data]

NoResponse == Response(NA, "none", NoData)

\* faulty variant of InRange: the upper bound le=100 is dropped
InRangeNoUpper(n) == n >= ClarityMin

\* ge=0, le=100
InRange(n) == n >= ClarityMin /\ n <= ClarityMax

\* CommunicationAnalysis.model_validate(analysis_data) accepts the payload
IsValid(data) ==
    /\ data.clarity_score.t \in {"int", "str"}
    /\ InRange(data.clarity_score.v)
    /\ data.communication_focus # "missing"
    /\ data.transcript # "missing"

\* the CommunicationAnalysis object built from an accepted payload
model_validate(data) ==
    [clarity_score |-> data.clarity_score.v,
     communication_focus |-> data.communication_focus,
     transcript |-> data.transcript]

\* faulty variant of wait_time: the delay grows linearly instead of doubling
wait_time_linear(a) == a + 1

\* wait_time = 2 ** attempt
wait_time(a) == 2 ^ a

\* faulty variant of ShouldRetry: off by one, the last attempt is retried too
ShouldRetryOffByOne(status, a, retries) ==
    status \in TransientStatuses /\ a < retries

\* e.response.status_code in (500, 503, 429) and attempt < max_retries - 1
ShouldRetry(status, a, retries) ==
    status \in TransientStatuses /\ a < retries - 1

-----------------------------------------------------------------------------
(* Exception handlers, as functions of the exception they receive *)

\* the except clauses of extract_audio_from_url, entered by an exception
\* raised inside its try block or thrown into it at the yield
extract_except(e) ==
    IF IsInstance(e.type, "DownloadError")
    THEN IF RequiresLogin(e.msg[1])
         THEN Exc("RuntimeError", <<"Video requires login or is age-restricted">>, NA, NA)
         ELSE Exc("RuntimeError", <<"yt-dlp failed to extract audio">> \o e.msg,
                  e.attempts, e.status)
    ELSE IF IsInstance(e.type, "Exception")
    THEN Exc("RuntimeError", <<"Unexpected error during extraction">> \o e.msg,
             e.attempts, e.status)
    ELSE e

\* faulty variant of orchestrator_except: the final except Exception clause is missing
orchestrator_except_no_catchall(e) ==
    IF IsInstance(e.type, "RuntimeError")
    THEN Exc("ValueError", <<"Video Processing Error">> \o e.msg, e.attempts, e.status)
    ELSE IF IsInstance(e.type, "ConnectionError")
    THEN Exc("ConnectionError", <<"API Error">> \o e.msg, e.attempts, e.status)
    ELSE e

\* the except clauses of process_video_insights
orchestrator_except(e) ==
    IF IsInstance(e.type, "RuntimeError")
    THEN Exc("ValueError", <<"Video Processing Error">> \o e.msg, e.attempts, e.status)
    ELSE IF IsInstance(e.type, "ConnectionError")
    THEN Exc("ConnectionError", <<"API Error">> \o e.msg, e.attempts, e.status)
    ELSE Exc("Exception", <<"An unexpected critical error occurred">> \o e.msg,
             e.attempts, e.status)

\* the else branch of the APIError handler: the error body is parsed for its
\* message and a ConnectionError is raised; json.loads raises on a body that
\* is not JSON
api_error_raise(status, body, a) ==
    IF body = "not_json"
    THEN Exc("JSONDecodeError", <<"Expecting value">>, NA, NA)
    ELSE Exc("ConnectionError",
             <<"Gemini API call failed after attempts",
               IF body = "json_with_message" THEN "service message"
               ELSE "No specific message provided.">>,
             a + 1, status)

\* faulty variant of ShouldDelete: the test is inverted
ShouldDeleteInverted(uploaded) == ~uploaded

\* if uploaded_file: (the guard of the remote deletion in the finally block)
ShouldDelete(uploaded) == uploaded

\* faulty variant of ShouldRemove: the test is inverted
ShouldRemoveInverted(dir) == dir # "exists"

\* if os.path.exists(temp_dir): (the guard of the removal in the finally block)
ShouldRemove(dir) == dir = "exists"

NoStageExit == [done |-> FALSE, exc |-> NoExc, result |-> <<>>]

\* what check_binary found for the two executables (nothing before the check)
Unchecked == [checked |-> FALSE, ffmpeg |-> FALSE, ffprobe |-> FALSE]

\* the exception in flight and the value being returned when the finally
\* block of extract_audio_from_url is entered (nothing before that)
NoPrimary == [set |-> FALSE, exc |-> NoExc, result |-> <<>>]

-----------------------------------------------------------------------------
(* Initial state: the caller invokes process_video_insights(video_url,     *)
(* client), or analyze_audio_file(audio_path, client, max_retries) itself.  *)

Init ==
    /\ entry \in {"process_video_insights", "analyze_audio_file"}
    /\ max_retries \in (IF entry = "process_video_insights"
                        THEN {DefaultMaxRetries}
                        ELSE 0..MaxRetriesArg \cup {DefaultMaxRetries})
    /\ pc = IF entry = "process_video_insights" THEN "check_binary" ELSE "upload"
    /\ exc = NoExc
    /\ analysis_result = <<>>
    /\ temp_dir = "none"
    /\ audio_file = FALSE
    /\ uploaded_file = FALSE
    /\ remote_file = "none"
    /\ attempt = 0
    /\ calls = 0
    /\ sleeps = <<>>
    /\ last_response = NoResponse
    /\ transient_failures = 0
    /\ uploads = 0
    /\ deletes = 0
    /\ delete_failed = FALSE
    /\ rmtree_failed = FALSE
    /\ extract_failure = "none"
    /\ analysis_started = (entry = "analyze_audio_file")
    /\ stage_exit = NoStageExit
    /\ binaries = Unchecked
    /\ downloads = 0
    /\ download_error = NoExc
    /\ primary = NoPrimary

analysisVars == <<uploaded_file, remote_file, attempt, calls, sleeps, last_response,
                  transient_failures, uploads, deletes, delete_failed, stage_exit>>

-----------------------------------------------------------------------------
(* extract_audio_from_url, up to the yield *)

\* faulty variant of CheckBinary: `and` instead of `or`, the stage gives up
\* only if both executables are missing
CheckBinaryBothMissing ==
    /\ pc = "check_binary"
    /\ \E ffmpeg \in BOOLEAN, ffprobe \in BOOLEAN :
         /\ binaries' = [checked |-> TRUE, ffmpeg |-> ffmpeg, ffprobe |-> ffprobe]
         /\ IF ffmpeg \/ ffprobe
            THEN /\ pc' = "mkdtemp"
                 /\ UNCHANGED <<exc, extract_failure>>
            ELSE /\ exc' = Exc("RuntimeError", <<"ffmpeg and/or ffprobe not installed">>, NA, NA)
                 /\ extract_failure' = "binary_missing"
                 /\ pc' = "orchestrator_except"
    /\ UNCHANGED <<entry, max_retries, analysis_result, temp_dir, audio_file,
                   rmtree_failed, analysis_started, downloads, download_error,
                   primary>>
    /\ UNCHANGED analysisVars

\* check_binary("ffmpeg") and, only if it is there, check_binary("ffprobe");
\* the RuntimeError is raised before the try block and leaves the generator
CheckBinary ==
    /\ pc = "check_binary"
    /\ \E ffmpeg \in BOOLEAN, ffprobe \in BOOLEAN :
         /\ binaries' = [checked |-> TRUE, ffmpeg |-> ffmpeg, ffprobe |-> ffprobe]
         /\ IF ffmpeg /\ ffprobe
            THEN /\ pc' = "mkdtemp"
                 /\ UNCHANGED <<exc, extract_failure>>
            ELSE /\ exc' = Exc("RuntimeError", <<"ffmpeg and/or ffprobe not installed">>, NA, NA)
                 /\ extract_failure' = "binary_missing"
                 /\ pc' = "orchestrator_except"
    /\ UNCHANGED <<entry, max_retries, analysis_result, temp_dir, audio_file,
                   rmtree_failed, analysis_started, downloads, download_error,
                   primary>>
    /\ UNCHANGED analysisVars

\* temp_dir = tempfile.mkdtemp()
Mkdtemp ==
    /\ pc = "mkdtemp"
    /\ temp_dir' = "exists"
    /\ pc' = "download"
    /\ UNCHANGED <<entry, max_retries, exc, analysis_result, audio_file,
                   rmtree_failed, extract_failure, analysis_started, binaries,
                   downloads, download_error, primary>>
    /\ UNCHANGED analysisVars

\* ydl.download([video_url]) completes; the post-processor did or did not
\* leave audio.mp3
DownloadCompletes ==
    /\ pc = "download"
    /\ \E created \in BOOLEAN : audio_file' = created
    /\ downloads' = downloads + 1
    /\ pc' = "verify_output"
    /\ UNCHANGED <<entry, max_retries, exc, analysis_result, temp_dir,
                   rmtree_failed, extract_failure, analysis_started, binaries,
                   download_error, primary>>
    /\ UNCHANGED analysisVars

\* ydl.download raises DownloadError, or some other exception
DownloadFails ==
    /\ pc = "download"
    /\ \/ \E text \in DownloadTexts : exc' = Exc("DownloadError", <<text>>, NA, NA)
       \/ exc' = Exc("TransportError", <<"network unreachable">>, NA, NA)
    /\ \E partial \in BOOLEAN : audio_file' = partial
    /\ downloads' = downloads + 1
    /\ download_error' = exc'
    /\ extract_failure' = "download_failed"
    /\ pc' = "extract_except"
    /\ UNCHANGED <<entry, max_retries, analysis_result, temp_dir,
                   rmtree_failed, analysis_started, binaries, primary>>
    /\ UNCHANGED analysisVars

\* faulty variant of VerifyOutput: the output file is not checked before the
\* path is yielded
VerifyOutputSkipped ==
    /\ pc = "verify_output"
    /\ pc' = "upload"
    /\ analysis_started' = TRUE
    /\ UNCHANGED <<exc, extract_failure>>
    /\ UNCHANGED <<entry, max_retries, analysis_result, temp_dir, audio_file,
                   rmtree_failed, binaries, downloads, download_error, primary>>
    /\ UNCHANGED analysisVars

\* if not os.path.exists(output_path): raise RuntimeError(...); else yield:
\* the with body of process_video_insights calls analyze_audio_file
VerifyOutput ==
    /\ pc = "verify_output"
    /\ IF audio_file
       THEN /\ pc' = "upload"
            /\ analysis_started' = TRUE
            /\ UNCHANGED <<exc, extract_failure>>
       ELSE /\ exc' = Exc("RuntimeError", <<"yt-dlp download completed but failed to create the final MP3 file">>, NA, NA)
            /\ extract_failure' = "no_output"
            /\ pc' = "extract_except"
            /\ UNCHANGED analysis_started
    /\ UNCHANGED <<entry, max_retries, analysis_result, temp_dir, audio_file,
                   rmtree_failed, binaries, downloads, download_error, primary>>
    /\ UNCHANGED analysisVars

-----------------------------------------------------------------------------
(* analyze_audio_file *)

extractVars == <<entry, max_retries, temp_dir, audio_file, rmtree_failed,
                 extract_failure, analysis_started, binaries, downloads,
                 download_error, primary>>

\* uploaded_file = client.files.upload(file=audio_path)
UploadSucceeds ==
    /\ pc = "upload"
    /\ uploads' = uploads + 1
    /\ uploaded_file' = TRUE
    /\ remote_file' = "exists"
    /\ attempt' = 0
    /\ pc' = "generate"
    /\ UNCHANGED <<exc, analysis_result, calls, sleeps, last_response,
                   transient_failures, deletes, delete_failed, stage_exit>>
    /\ UNCHANGED extractVars

\* the upload raises: outside the retry loop, so the exception goes straight
\* to the outer except (which re-raises it) and the finally block
UploadFails ==
    /\ pc = "upload"
    /\ uploads' = uploads + 1
    /\ \E type \in {"APIError", "OSError", "TransportError"} :
         exc' = Exc(type, <<"upload failed">>, NA, NA)
    /\ pc' = "analysis_finally"
    /\ UNCHANGED <<analysis_result, uploaded_file, remote_file, attempt, calls,
                   sleeps, last_response, transient_failures, deletes,
                   delete_failed, stage_exit>>
    /\ UNCHANGED extractVars

\* generate_content answers; response.text is a JSON object: json.loads,
\* then model_validate returns the result or raises ValidationError
GenerateJson ==
    /\ pc = "generate"
    /\ attempt < max_retries
    /\ calls' = calls + 1
    /\ \E data \in Payloads :
         /\ last_response' = Response(200, "json", data)
         /\ IF IsValid(data)
            THEN /\ analysis_result' = <<model_validate(data)>>
                 /\ UNCHANGED exc
            ELSE /\ exc' = Exc("ValidationError", <<"validation error for CommunicationAnalysis">>, NA, NA)
                 /\ UNCHANGED analysis_result
    /\ pc' = "analysis_finally"
    /\ UNCHANGED <<uploaded_file, remote_file, attempt, sleeps,
                   transient_failures, uploads, deletes, delete_failed, stage_exit>>
    /\ UNCHANGED extractVars

\* faulty variant of GenerateNotJson: the retry handler catches every
\* exception, so an unparseable answer is retried like a transient failure
GenerateNotJsonRetried ==
    /\ pc = "generate"
    /\ attempt < max_retries
    /\ calls' = calls + 1
    /\ last_response' = Response(200, "not_json", NoData)
    /\ IF attempt < max_retries - 1
       THEN /\ sleeps' = Append(sleeps, wait_time(attempt))
            /\ attempt' = attempt + 1
            /\ pc' = "generate"
            /\ UNCHANGED exc
       ELSE /\ exc' = Exc("JSONDecodeError", <<"Expecting value">>, NA, NA)
            /\ pc' = "analysis_finally"
            /\ UNCHANGED <<sleeps, attempt>>
    /\ UNCHANGED <<analysis_result, uploaded_file, remote_file,
                   transient_failures, uploads, deletes, delete_failed, stage_exit>>
    /\ UNCHANGED extractVars

\* generate_content answers; response.text is not JSON: json.loads raises
GenerateNotJson ==
    /\ pc = "generate"
    /\ attempt < max_retries
    /\ calls' = calls + 1
    /\ last_response' = Response(200, "not_json", NoData)
    /\ exc' = Exc("JSONDecodeError", <<"Expecting value">>, NA, NA)
    /\ pc' = "analysis_finally"
    /\ UNCHANGED <<analysis_result, uploaded_file, remote_file, attempt, sleeps,
                   transient_failures, uploads, deletes, delete_failed, stage_exit>>
    /\ UNCHANGED extractVars

\* faulty variant of GenerateAPIError: a transient failure is retried without
\* advancing the attempt number (the call and sleep records are capped at
\* max_retries entries)
GenerateAPIErrorNoAdvance ==
    /\ pc = "generate"
    /\ attempt < max_retries
    /\ calls' = IF calls < max_retries THEN calls + 1 ELSE calls
    /\ \E status \in StatusCodes :
         /\ IF status \in TransientStatuses
            THEN /\ last_response' = Response(status, "unread", NoData)
                 /\ sleeps' = IF Len(sleeps) < max_retries
                              THEN Append(sleeps, wait_time(attempt)) ELSE sleeps
                 /\ transient_failures' = calls'
                 /\ pc' = "generate"
                 /\ UNCHANGED <<exc, attempt>>
            ELSE /\ \E body \in ErrorBodies :
                      /\ last_response' = Response(status, body, NoData)
                      /\ exc' = api_error_raise(status, body, attempt)
                 /\ pc' = "analysis_finally"
                 /\ UNCHANGED <<sleeps, attempt, transient_failures>>
    /\ UNCHANGED <<analysis_result, uploaded_file, remote_file, uploads, deletes,
                   delete_failed, stage_exit>>
    /\ UNCHANGED extractVars

\* generate_content raises APIError: sleep and go round the loop again, or
\* raise
GenerateAPIError ==
    /\ pc = "generate"
    /\ attempt < max_retries
    /\ calls' = calls + 1
    /\ \E status \in StatusCodes :
         /\ IF ShouldRetry(status, attempt, max_retries)
            THEN /\ last_response' = Response(status, "unread", NoData)
                 /\ sleeps' = Append(sleeps, wait_time(attempt))
                 /\ transient_failures' = transient_failures + 1
                 /\ attempt' = attempt + 1
                 /\ pc' = "generate"
                 /\ UNCHANGED exc
            ELSE /\ \E body \in ErrorBodies :
                      /\ last_response' = Response(status, body, NoData)
                      /\ exc' = api_error_raise(status, body, attempt)
                 /\ transient_failures' =
                      transient_failures + (IF status \in TransientStatuses THEN 1 ELSE 0)
                 /\ pc' = "analysis_finally"
                 /\ UNCHANGED <<sleeps, attempt>>
    /\ UNCHANGED <<analysis_result, uploaded_file, remote_file, uploads, deletes,
                   delete_failed, stage_exit>>
    /\ UNCHANGED extractVars

\* generate_content raises an exception that is not an APIError
GenerateOtherError ==
    /\ pc = "generate"
    /\ attempt < max_retries
    /\ calls' = calls + 1
    /\ last_response' = Response(NA, "none", NoData)
    /\ exc' = Exc("TransportError", <<"request timed out">>, NA, NA)
    /\ pc' = "analysis_finally"
    /\ UNCHANGED <<analysis_result, uploaded_file, remote_file, attempt, sleeps,
                   transient_failures, uploads, deletes, delete_failed, stage_exit>>
    /\ UNCHANGED extractVars

\* the for loop ends without returning: raise ConnectionError(... after
\* {max_retries} attempts ...)
LoopExhausted ==
    /\ pc = "generate"
    /\ attempt >= max_retries
    /\ exc' = Exc("ConnectionError",
                  <<"Gemini API call failed after attempts",
                    "model overload/unavailability">>, max_retries, NA)
    /\ pc' = "analysis_finally"
    /\ UNCHANGED <<analysis_result, uploaded_file, remote_file, attempt, calls,
                   sleeps, last_response, transient_failures, uploads, deletes,
                   delete_failed, stage_exit>>
    /\ UNCHANGED extractVars

\* where control goes when analyze_audio_file returns or raises: back to its
\* caller, or into the generator suspended at the yield
AfterAnalysis(e) ==
    IF entry = "analyze_audio_file" THEN "done"
    ELSE IF e.type = "none" THEN "extract_finally" ELSE "extract_except"

\* faulty variant of AnalysisFinally: the deletion is not wrapped in its own
\* try/except, so its failure leaves the finally block
AnalysisFinallyUnguardedDelete ==
    /\ pc = "analysis_finally"
    /\ IF ShouldDelete(uploaded_file)
       THEN /\ deletes' = deletes + 1
            /\ \E ok \in BOOLEAN :
                 /\ remote_file' = IF ok THEN "deleted" ELSE remote_file
                 /\ delete_failed' = ~ok
                 /\ exc' = IF ok THEN exc ELSE Exc("APIError", <<"delete failed">>, NA, NA)
                 /\ analysis_result' = IF ok THEN analysis_result ELSE <<>>
       ELSE UNCHANGED <<deletes, remote_file, delete_failed, exc, analysis_result>>
    /\ stage_exit' = [done |-> TRUE, exc |-> exc', result |-> analysis_result']
    /\ pc' = AfterAnalysis(exc')
    /\ UNCHANGED <<uploaded_file, attempt, calls, sleeps,
                   last_response, transient_failures, uploads>>
    /\ UNCHANGED extractVars

\* finally: client.files.delete(name=uploaded_file.name), whose failure is
\* caught and printed; then the stage returns or re-raises
AnalysisFinally ==
    /\ pc = "analysis_finally"
    /\ IF ShouldDelete(uploaded_file)
       THEN /\ deletes' = deletes + 1
            /\ \E ok \in BOOLEAN :
                 /\ remote_file' = IF ok THEN "deleted" ELSE remote_file
                 /\ delete_failed' = ~ok
       ELSE UNCHANGED <<deletes, remote_file, delete_failed>>
    /\ stage_exit' = [done |-> TRUE, exc |-> exc, result |-> analysis_result]
    /\ pc' = AfterAnalysis(exc)
    /\ UNCHANGED <<exc, analysis_result, uploaded_file, attempt, calls, sleeps,
                   last_response, transient_failures, uploads>>
    /\ UNCHANGED extractVars

-----------------------------------------------------------------------------
(* extract_audio_from_url after the yield, and process_video_insights *)

\* an exception raised in the try block, or thrown in at the yield by the
\* with statement, is caught by the except clauses and replaced
ExtractExcept ==
    /\ pc = "extract_except"
    /\ exc' = extract_except(exc)
    /\ pc' = "extract_finally"
    /\ UNCHANGED <<analysis_result>>
    /\ UNCHANGED extractVars
    /\ UNCHANGED analysisVars

\* finally: if os.path.exists(temp_dir): shutil.rmtree(temp_dir).  A failing
\* rmtree raises out of the finally block: it replaces the exception in
\* flight, or the return in progress of the with body.
ExtractFinally ==
    /\ pc = "extract_finally"
    /\ primary' = [set |-> TRUE, exc |-> exc, result |-> analysis_result]
    /\ IF ShouldRemove(temp_dir)
       THEN \E ok \in BOOLEAN :
              IF ok
              THEN /\ temp_dir' = "removed"
                   /\ audio_file' = FALSE
                   /\ pc' = IF exc.type = "none" THEN "done" ELSE "orchestrator_except"
                   /\ UNCHANGED <<exc, analysis_result, rmtree_failed>>
              ELSE /\ exc' = Exc("OSError", <<"rmtree failed">>, NA, NA)
                   /\ analysis_result' = <<>>
                   /\ rmtree_failed' = TRUE
                   /\ pc' = "orchestrator_except"
                   /\ UNCHANGED <<temp_dir, audio_file>>
       ELSE /\ pc' = IF exc.type = "none" THEN "done" ELSE "orchestrator_except"
            /\ UNCHANGED <<exc, analysis_result, temp_dir, audio_file, rmtree_failed>>
    /\ UNCHANGED <<entry, max_retries, extract_failure, analysis_started,
                   binaries, downloads, download_error>>
    /\ UNCHANGED analysisVars

\* except RuntimeError / except ConnectionError / except Exception
OrchestratorExcept ==
    /\ pc = "orchestrator_except"
    /\ exc' = orchestrator_except(exc)
    /\ pc' = "done"
    /\ UNCHANGED <<analysis_result>>
    /\ UNCHANGED extractVars
    /\ UNCHANGED analysisVars

Next ==
    \/ CheckBinary
    \/ Mkdtemp
    \/ DownloadCompletes
    \/ DownloadFails
    \/ VerifyOutput
    \/ UploadSucceeds
    \/ UploadFails
    \/ GenerateJson
    \/ GenerateNotJson
    \/ GenerateAPIError
    \/ GenerateOtherError
    \/ LoopExhausted
    \/ AnalysisFinally
    \/ ExtractExcept
    \/ ExtractFinally
    \/ OrchestratorExcept

Spec == Init /\ [][Next]_vars

-----------------------------------------------------------------------------
(* Properties *)

Orchestrated == entry = "process_video_insights"
Completed == Orchestrated /\ pc = "done"
StageExited == stage_exit.done

\* C1: whenever analyze_audio_file ends with a ConnectionError,
\* process_video_insights raises ConnectionError to its caller (and neither
\* ValueError nor the critical kind)
C1_ConnectionErrorPassedThrough ==
    (Completed /\ StageExited /\ stage_exit.exc.type = "ConnectionError")
        => exc.type = "ConnectionError"

\* C2: whenever analyze_audio_file fails with an error that is neither an
\* extraction error nor a ConnectionError (upload failure, unparseable
\* response, schema validation failure), process_video_insights raises the
\* critical kind, a bare Exception
C2_OtherErrorsBecomeCritical ==
    (Completed /\ StageExited
       /\ stage_exit.exc.type \in {"APIError", "OSError", "TransportError",
                                   "JSONDecodeError", "ValidationError"})
        => exc.type = "Exception"

C4_ExactlyOneDeletion == StageExited => deletes = 1

\* C4 as amended: at most one deletion attempt is ever made; once
\* analyze_audio_file has returned or raised, exactly one has been made if the
\* upload succeeded and none if the upload failed; none is made before the
\* stage's exit
C4_OneDeletionIfUploaded ==
    /\ deletes <= 1
    /\ StageExited => deletes = (IF uploaded_file THEN 1 ELSE 0)
    /\ ~StageExited => deletes = 0

\* C4 witness: the retry budget was exhausted and the one deletion was made
C4_Witness ==
    /\ StageExited /\ deletes = 1 /\ max_retries >= 2
    /\ calls = max_retries /\ transient_failures = max_retries

\* C5: with max_retries = N >= 1 and N consecutive transient failures,
\* exactly N generation calls are made and a ConnectionError reporting N
\* attempts is raised
C5_ExhaustionRaisesConnectionError ==
    (StageExited /\ max_retries >= 1 /\ transient_failures = max_retries)
        => /\ calls = max_retries
           /\ stage_exit.exc.type = "ConnectionError"
           /\ stage_exit.exc.attempts = max_retries

\* C6: k < max_retries consecutive transient failures followed by a success
\* with a valid payload make the stage return the result built from that
\* payload after exactly k+1 generation calls, the sleeps being
\* 1, 2, 4, ..., 2^(k-1) in this order
C6_RetryThenSuccess ==
    (StageExited /\ last_response.status = 200 /\ last_response.body = "json"
       /\ last_response.data.clarity_score.t \in {"int", "str"}
       /\ last_response.data.clarity_score.v \in 0..100
       /\ last_response.data.communication_focus = "text"
       /\ last_response.data.transcript = "text")
        => /\ stage_exit.exc = NoExc
           /\ stage_exit.result =
                <<[clarity_score |-> last_response.data.clarity_score.v,
                   communication_focus |-> "text", transcript |-> "text"]>>
           /\ transient_failures < max_retries
           /\ calls = transient_failures + 1
           /\ Len(sleeps) = transient_failures
           /\ \A i \in 1..Len(sleeps) : sleeps[i] = 2 ^ (i - 1)
           /\ \A i \in 1..(Len(sleeps) - 1) : sleeps[i] <= sleeps[i + 1]

\* C6 witness: three transient failures, then the success
C6_Witness ==
    /\ StageExited /\ transient_failures = 3 /\ calls = 4
    /\ stage_exit.result # <<>> /\ sleeps = <<1, 2, 4>>

\* C7: a non-transient failure on the first attempt raises a ConnectionError
\* reporting 1 attempt, after exactly one generation call and no sleep
C7_PermanentFailureRaisesAtOnce ==
    (StageExited /\ calls = 1 /\ last_response.status \in {400, 401})
        => /\ stage_exit.exc.type = "ConnectionError"
           /\ stage_exit.exc.attempts = 1
           /\ sleeps = <<>>

\* C8: every result held, returned by analyze_audio_file or returned by
\* process_video_insights has an integer clarity_score in 0..100, equal to
\* the payload's value; a payload whose clarity_score is missing or outside
\* 0..100 is rejected with a validation error and not returned
C8_ClarityScoreInRange ==
    /\ \A r \in {analysis_result, stage_exit.result} :
         r # <<>> => /\ r[1].clarity_score \in 0..100
                     /\ r[1].clarity_score = last_response.data.clarity_score.v
    /\ (last_response.body = "json"
          /\ \/ last_response.data.clarity_score.t \in {"missing", "null"}
             \/ last_response.data.clarity_score.v \notin 0..100)
        => /\ analysis_result = <<>>
           /\ StageExited => /\ stage_exit.result = <<>>
                             /\ stage_exit.exc.type = "ValidationError"

\* C8 witness: a payload that is valid but for its clarity_score of 101 has
\* been rejected
C8_Witness ==
    /\ StageExited /\ last_response.body = "json"
    /\ last_response.data =
         [clarity_score |-> [t |-> "int", v |-> 101],
          communication_focus |-> "text", transcript |-> "text"]
    /\ stage_exit.exc.type = "ValidationError"

\* C9: every failure of the extraction stage makes process_video_insights
\* raise ValueError, and the analysis stage is never started (no upload, no
\* generation call, no remote deletion)
C9_ExtractionFailureIsValueError ==
    (Completed /\ extract_failure # "none")
        => /\ exc.type = "ValueError"
           /\ ~analysis_started
           /\ uploads = 0 /\ calls = 0 /\ deletes = 0

\* C10: every completed invocation of process_video_insights either returns
\* a full validated result and raises nothing, or returns nothing and raises
\* one of ValueError, ConnectionError and the bare Exception, also when a
\* cleanup step failed
C10_FourOutcomes ==
    Completed =>
        \/ /\ exc = NoExc
           /\ Len(analysis_result) = 1
           /\ analysis_result[1].clarity_score \in 0..100
           /\ analysis_result[1].communication_focus # "missing"
           /\ analysis_result[1].transcript # "missing"
        \/ /\ analysis_result = <<>>
           /\ exc.type \in {"ValueError", "ConnectionError", "Exception"}

\* C10 witness: the analysis produced a result, the removal of the directory
\* failed, and the invocation has raised instead of returning
C10_Witness ==
    /\ Completed /\ rmtree_failed /\ stage_exit.result # <<>>
    /\ analysis_result = <<>> /\ exc.type = "Exception"

\* the text contains one of the two phrases, in any letter case
MentionsLogin(text) ==
    \E phrase \in {"sign in", "confirm you're not a bot"} :
        IsSubstring(Chars(phrase), Lower(Chars(text)))

LoginMessage == <<"Video requires login or is age-restricted">>

C12_CleanupFailureNeverMasks ==
    (Completed /\ rmtree_failed /\ primary.set)
        => IF primary.exc.type = "none"
           THEN exc = NoExc /\ analysis_result = primary.result
           ELSE /\ exc.type = orchestrator_except(primary.exc).type
                /\ analysis_result = <<>>

\* C13: a failing remote deletion changes nothing in the outcome of
\* analyze_audio_file: the stage leaves with the exception that was in
\* flight, or the result that was being returned, when its finally block
\* was entered, and the deletion failure is not raised
C13_DeletionFailureHarmless ==
    [][(pc = "analysis_finally" /\ delete_failed')
         => /\ exc' = exc
            /\ analysis_result' = analysis_result
            /\ stage_exit' = [done |-> TRUE, exc |-> exc, result |-> analysis_result]]_vars

\* C13 witness: the deletion failed and the stage has returned its result
C13_Witness ==
    /\ StageExited /\ delete_failed /\ deletes = 1
    /\ stage_exit.exc = NoExc /\ stage_exit.result # <<>>

\* C14: every service failure of the generation call that ends the retry
\* loop (non-transient, or transient on the last permitted attempt) makes
\* the stage raise a ConnectionError carrying the attempt count and the
\* status, whatever the body of the error response
C14_ServiceFailureIsConnectionError ==
    (StageExited /\ last_response.status \in StatusCodes
       /\ last_response.body \in ErrorBodies)
        => /\ stage_exit.exc.type = "ConnectionError"
           /\ stage_exit.exc.attempts = calls
           /\ stage_exit.exc.status = last_response.status

\* the last generation call answered at the transport level, and its body is
\* not JSON or does not pass the schema
ParseOrValidationFailed ==
    /\ last_response.status = 200
    /\ \/ last_response.body = "not_json"
       \/ /\ last_response.body = "json"
          /\ ~ /\ last_response.data.clarity_score.t \in {"int", "str"}
               /\ last_response.data.clarity_score.v \in 0..100
               /\ last_response.data.communication_focus = "text"
               /\ last_response.data.transcript = "text"

\* C15: once a generation call has answered with a body that fails JSON
\* parsing or schema validation, the loop is left at once with that failure
\* raised (JSONDecodeError or ValidationError), and no generation call and
\* no sleep ever follows, whatever remains of the retry budget
C15_ParseFailureNotRetried ==
    /\ [](ParseOrValidationFailed
            => /\ pc # "generate"
               /\ pc = "analysis_finally"
                    => exc.type \in {"JSONDecodeError", "ValidationError"}
               /\ StageExited
                    => stage_exit.exc.type \in {"JSONDecodeError", "ValidationError"}
               /\ Len(sleeps) = calls - 1)
    /\ [][ParseOrValidationFailed => (calls' = calls /\ sleeps' = sleeps)]_vars

\* C15 witness: the second of eight permitted attempts answered with text
\* that is not JSON, and the stage has raised after two calls and one sleep
C15_Witness ==
    /\ StageExited /\ max_retries = 8 /\ calls = 2 /\ sleeps = <<1>>
    /\ last_response.status = 200 /\ last_response.body = "not_json"
    /\ stage_exit.exc.type = "JSONDecodeError"

\* C16: in every run of the analysis stage the number of generation calls
\* never exceeds max_retries; a sleep happens only in the step of a
\* generation call that failed with status 500, 503 or 429 while at least
\* one attempt remains, so none follows the last permitted attempt; and the
\* sleep after attempt number a lasts 2^(a-1)
C16_RetryDiscipline ==
    /\ [](/\ calls <= max_retries
          /\ Len(sleeps) <= (IF max_retries >= 1 THEN max_retries - 1 ELSE 0)
          /\ Len(sleeps) <= calls
          /\ \A a \in 1..Len(sleeps) : sleeps[a] = 2 ^ (a - 1))
    /\ [][sleeps' # sleeps
            => /\ calls' = calls + 1
               /\ last_response'.status \in {500, 503, 429}
               /\ calls' < max_retries
               /\ sleeps' = Append(sleeps, 2 ^ (calls' - 1))]_vars

\* C16 witness: eight transient failures out of eight permitted attempts,
\* seven sleeps, none after the eighth
C16_Witness ==
    /\ StageExited /\ max_retries = 8 /\ calls = 8
    /\ last_response.status = 429
    /\ sleeps = <<1, 2, 4, 8, 16, 32, 64>>

\* C17: if ffmpeg or ffprobe is unavailable, the extraction stage fails
\* before any other work: no temporary directory is ever allocated, the
\* download is never invoked (nor anything after it), and the error it
\* raises is the dependency-missing RuntimeError
C17_FailFastOnMissingBinary ==
    (binaries.checked /\ (~binaries.ffmpeg \/ ~binaries.ffprobe))
        => /\ temp_dir = "none"
           /\ downloads = 0 /\ ~audio_file
           /\ uploads = 0 /\ calls = 0 /\ deletes = 0
           /\ pc \in {"orchestrator_except", "done"}
           /\ pc = "orchestrator_except"
                => exc = Exc("RuntimeError", <<"ffmpeg and/or ffprobe not installed">>, NA, NA)
           /\ pc = "done"
                => exc.msg = <<"Video Processing Error", "ffmpeg and/or ffprobe not installed">>

\* C17 witness: ffmpeg is there, ffprobe is not, and the invocation has
\* raised without a directory having been made
C17_Witness ==
    /\ Completed /\ temp_dir = "none" /\ downloads = 0
    /\ binaries = [checked |-> TRUE, ffmpeg |-> TRUE, ffprobe |-> FALSE]
    /\ exc.type = "ValueError"

\* The invocation is one sequential call chain: as long as a step is
\* possible one is taken, every external call being assumed to return or
\* raise.
LiveSpec == Init /\ [][Next]_vars /\ WF_vars(Next)

\* C18: every invocation eventually completes, by returning or by raising
C18_Terminates == <>(pc = "done")

\* C18 witness: an invocation of process_video_insights that used all eight
\* attempts has completed
C18_Witness ==
    /\ Completed /\ calls = DefaultMaxRetries /\ Len(sleeps) = DefaultMaxRetries - 1

\* C19: in every run of process_video_insights that reaches the analysis
\* stage, the temporary directory and its audio file exist at the upload,
\* at every generation call and during the remote deletion; the directory
\* is gone only after the analysis stage has returned or raised, its
\* deletion attempt (if any) made
C19_ArtifactOutlivesAnalysis ==
    Orchestrated =>
        /\ pc \in {"upload", "generate", "analysis_finally"}
             => (temp_dir = "exists" /\ audio_file)
        /\ (analysis_started /\ ~StageExited)
             => (temp_dir = "exists" /\ audio_file)
        /\ (analysis_started /\ temp_dir = "removed")
             => /\ StageExited
                /\ deletes = (IF uploaded_file THEN 1 ELSE 0)
                /\ pc \in {"orchestrator_except", "done"}

\* C19 witness: after an upload, two generation calls and the remote
\* deletion, the directory has been removed
C19_Witness ==
    /\ Completed /\ analysis_started /\ temp_dir = "removed"
    /\ uploads = 1 /\ calls = 2 /\ deletes = 1

====
